---- MODULE Spec2Model ----
(***************************************************************************)
(* A model of the JSON-RPC 2.0 dispatcher of developertom01/jsonrpc2:      *)
(* handle, handleSingleRequest, handleBatchRequest, service.call and the   *)
(* response writers, with the goroutines, the two unbuffered channels, the *)
(* mutex and the request context of one served HTTP request.               *)
(*                                                                         *)
(* Go values are modelled as follows.  A pointer (to a string, an any or   *)
(* an errorResponse) is a sequence: <<>> is nil, <<v>> points to v.  A     *)
(* method string is the sequence of its segments between the '.'           *)
(* separators, which is what strings.Split(method, ".") returns.  An error  *)
(* message is the sequence of the pieces fmt.Sprintf joins.                *)
(***************************************************************************)
EXTENDS Integers, Sequences, FiniteSets, TLC

\* ------------------------------------------------------------- constants

PARSE_ERROR == 32700

INVALID_REQUEST == 32600

METHOD_NOT_FOUND == 32601

INVALID_PARAMS == 32602

INTERNAL_ERROR == 32603

\* The protocol version every request must carry and every response carries.
RPC_VERSION == "2.0"

\* http.StatusOK and http.StatusNoContent
StatusOK == 200

StatusNoContent == 204

\* ---------------------------------------------------------------- bounds

\* The longest batch a payload holds.
MaxBatch == 2

\* The most register calls made before serving.
MaxRegs == 2

\* ---------------------------------------------------------------- inputs

Nil == <<>>

Ptr(v) == <<v>>

\* The registry the served dispatcher holds: service name -> method names
\* (the test suite's SetupTest registers arith{} under "Arith").
services == [s \in {"Arith"} |-> {"Add", "ErrorMethod"}]

\* The requests a payload is made of: two plain calls with different ids, a
\* notification, a call of a method the service lacks, a call of a service
\* that is not registered, a wrong version, and a notification whose method
\* has no separator.
Requests ==
  { [Id |-> Ptr("1"), Method |-> <<"Arith", "Add">>, Jsonrpc |-> "2.0"],
    [Id |-> Ptr("2"), Method |-> <<"Arith", "ErrorMethod">>, Jsonrpc |-> "2.0"],
    [Id |-> Nil,      Method |-> <<"Arith", "Add">>, Jsonrpc |-> "2.0"],
    [Id |-> Ptr("2"), Method |-> <<"Arith", "Sub">>, Jsonrpc |-> "2.0"],
    [Id |-> Ptr("1"), Method |-> <<"Other", "Add">>, Jsonrpc |-> "2.0"],
    [Id |-> Ptr("1"), Method |-> <<"Arith", "Add">>, Jsonrpc |-> "1.1"],
    [Id |-> Nil,      Method |-> <<"ArithAdd">>, Jsonrpc |-> "2.0"] }

Batches == UNION { [1..n -> Requests] : n \in 0..MaxBatch }

\* What readRequest can decode a body into.
Payloads ==
  { [kind |-> "single", reqs |-> <<r>>] : r \in Requests }
  \cup { [kind |-> "batch", reqs |-> b] : b \in Batches }
  \cup { [kind |-> "garbage", reqs |-> <<>>] }

\* What one execution of a registered handler can do: panic (also reflect's
\* panic when the arguments do not fit), or return (result, error, code).
\* The third output is a pointer to an RpcErrorCode, nil or pointing to a code; "iface"
\* is a nil output of an interface type.
NoRet == [kind |-> "none", result |-> 0, err |-> Nil, code |-> [t |-> "nilptr", v |-> 0]]

HandlerBehaviours ==
  { [kind |-> "panic", result |-> 0, err |-> Nil, code |-> [t |-> "nilptr", v |-> 0]],
    [kind |-> "return", result |-> 3, err |-> Nil, code |-> [t |-> "ptr", v |-> INTERNAL_ERROR]],
    [kind |-> "return", result |-> 0, err |-> Ptr(<<"Some error here">>),
     code |-> [t |-> "ptr", v |-> INVALID_PARAMS]],
    [kind |-> "return", result |-> 0, err |-> Ptr(<<"Some error here">>),
     code |-> [t |-> "nilptr", v |-> 0]],
    [kind |-> "return", result |-> 0, err |-> Ptr(<<"Some error here">>),
     code |-> [t |-> "iface", v |-> 0]] }

\* ------------------------------------------------------------- responses

\* makeErrorResponse filling the result as well.
makeErrorResponse_withResult(err, errCode, id) ==
  [Jsonrpc |-> RPC_VERSION, Id |-> id, Result |-> Ptr(0),
   Error |-> Ptr([Code |-> errCode, Message |-> err, Data |-> "null"])]

makeErrorResponse(err, errCode, id) ==
  [Jsonrpc |-> RPC_VERSION, Id |-> id, Result |-> Nil,
   Error |-> Ptr([Code |-> errCode, Message |-> err, Data |-> "null"])]

makeSuccessResponse(data, id) ==
  [Jsonrpc |-> RPC_VERSION, Id |-> id, Result |-> Ptr(data), Error |-> Nil]

\* writeResponse without its notification branch: a body whatever the id.
writeResponse_alwaysBody(res, id) ==
  [status |-> StatusOK, kind |-> "object", body |-> <<res>>]

\* writeResponse: what one call puts on the wire.
writeResponse(res, id) ==
  IF id = Nil
    THEN [status |-> StatusNoContent, kind |-> "none", body |-> <<>>]
    ELSE [status |-> StatusOK, kind |-> "object", body |-> <<res>>]

writeErrorResponse(err, errCode, id) ==
  writeResponse(makeErrorResponse(err, errCode, id), id)

writeSuccessResponse(data, id) ==
  writeResponse(makeSuccessResponse(data, id), id)

\* writeBatchResponse without its filter: every response is kept.
validResponses_unfiltered(rs) == rs

\* The filter of writeBatchResponse: the responses whose Id is not nil.
validResponses(rs) == SelectSeq(rs, LAMBDA r : r.Id # Nil)

writeBatchResponse(rs) ==
  [status |-> StatusOK, kind |-> "array", body |-> validResponses(rs)]

\* sanitizeMethodPath: no separator is an error; otherwise the first two
\* segments of the split.
sanitizeMethodPath(method) ==
  IF Len(method) < 2
    THEN [err |-> Ptr(<<"Invalid method name">>), serviceName |-> "", methodName |-> ""]
    ELSE [err |-> Nil, serviceName |-> method[1], methodName |-> method[2]]

\* ------------------------------------------------------------ service.call

NoOut == [kind |-> "none", data |-> 0, err |-> <<>>, code |-> 0, reqId |-> Nil]

\* A callerError and a callerSuccess, the values sent on errChan and respChan.
callerError(err, code, id) ==
  [kind |-> "err", data |-> 0, err |-> err, code |-> code, reqId |-> id]

callerSuccess(data, id) ==
  [kind |-> "ok", data |-> data, err |-> <<>>, code |-> 0, reqId |-> id]

\* The deferred function: a recovered panic becomes an INTERNAL_ERROR
\* callerError that is sent on errChan (the send of line 154).
recovered(what, id) ==
  [pc |-> "send154",
   out |-> callerError(<<"Internal error: Panic ", what>>, INTERNAL_ERROR, id)]

\* errorCodeOf ignoring the code the handler supplied.
errorCodeOf_ignoresCode(code) ==
  IF code.t = "nilptr" THEN [panic |-> TRUE, code |-> 0]
  ELSE [panic |-> FALSE, code |-> INTERNAL_ERROR]

\* The code of an application error: resp[2].Interface() is nil only for a
\* nil value of an interface type; a nil pointer is a non-nil interface, and
\* dereferencing it panics ("deref").
errorCodeOf(code) ==
  IF code.t = "iface" THEN [panic |-> FALSE, code |-> INTERNAL_ERROR]
  ELSE IF code.t = "nilptr" THEN [panic |-> TRUE, code |-> 0]
  ELSE [panic |-> FALSE, code |-> code.v]

\* method.Call and what follows it: where the task goes to send, and what.
callResult(b, id) ==
  IF b.kind = "panic" THEN recovered("handler", id)
  ELSE IF b.err # Nil
    THEN LET c == errorCodeOf(b.code) IN
         IF c.panic THEN recovered("nil pointer dereference", id)
         ELSE [pc |-> "send177", out |-> callerError(b.err[1], c.code, id)]
    ELSE [pc |-> "send185", out |-> callerSuccess(b.result, id)]

\* The task started by `go s.service.call(...)`.
newTask(svc, methodName, id) ==
  [pc |-> "start", svc |-> svc, methodName |-> methodName, id |-> id,
   ret |-> NoRet, out |-> NoOut]

\* The sends on errChan, and the one on respChan.
errSends == {"send136", "send154", "send177"}

respSends == {"send185"}

\* ------------------------------------------------------------------ mutex

muLock(m) == IF m = "unlocked" THEN "locked" ELSE "blocked"

muUnlock(m) == IF m = "locked" THEN "unlocked" ELSE "fatal"

\* ------------------------------------------------- per-request validation

\* singleCheck without its version check.
singleCheck_noVersion(req) ==
  LET p == sanitizeMethodPath(req.Method) IN
    IF p.err # Nil THEN Ptr([err |-> p.err[1], code |-> PARSE_ERROR])
    ELSE IF p.serviceName \notin DOMAIN services
      THEN Ptr([err |-> <<"Service ", p.serviceName, " is not registered">>,
                code |-> METHOD_NOT_FOUND])
    ELSE Nil

\* handleSingleRequest, lines 366-386: the error response, or none.
singleCheck(req) ==
  IF req.Jsonrpc # RPC_VERSION
    THEN Ptr([err |-> <<"Invalid RPC version. jsonrpc must be 2.0">>, code |-> INVALID_REQUEST])
  ELSE LET p == sanitizeMethodPath(req.Method) IN
    IF p.err # Nil THEN Ptr([err |-> p.err[1], code |-> PARSE_ERROR])
    ELSE IF p.serviceName \notin DOMAIN services
      THEN Ptr([err |-> <<"Service ", p.serviceName, " is not registered">>,
                code |-> METHOD_NOT_FOUND])
    ELSE Nil

\* The loop without the continue after its version check: a request with a
\* wrong version gets its error response and goes on to the other checks.
RECURSIVE batchLoop_noContinue(_, _, _, _)
batchLoop_noContinue(requests, i, rs, vs) ==
  IF i > Len(requests) THEN [responses |-> rs, validServices |-> vs]
  ELSE LET req == requests[i]
           rs1 == IF req.Jsonrpc # RPC_VERSION
                    THEN Append(rs, makeErrorResponse(
                           <<"Invalid RPC version. jsonrpc must be 2.0">>,
                           INVALID_REQUEST, req.Id))
                    ELSE rs
           p == sanitizeMethodPath(req.Method)
       IN
      IF p.err # Nil
        THEN batchLoop_noContinue(requests, i + 1,
               Append(rs1, makeErrorResponse(p.err[1], PARSE_ERROR, req.Id)), vs)
      ELSE IF p.serviceName \notin DOMAIN services
        THEN batchLoop_noContinue(requests, i + 1,
               Append(rs1, makeErrorResponse(<<"Service ", p.serviceName, " is not registered">>,
                                             METHOD_NOT_FOUND, req.Id)), vs)
      ELSE batchLoop_noContinue(requests, i + 1, rs1,
             Append(vs, [req |-> req, service |-> p.serviceName,
                         methodName |-> p.methodName]))

\* The loop with the method-path check before the version check.
RECURSIVE batchLoop_pathFirst(_, _, _, _)
batchLoop_pathFirst(requests, i, rs, vs) ==
  IF i > Len(requests) THEN [responses |-> rs, validServices |-> vs]
  ELSE LET req == requests[i]
           p == sanitizeMethodPath(req.Method)
       IN
      IF p.err # Nil
        THEN batchLoop_pathFirst(requests, i + 1,
               Append(rs, makeErrorResponse(p.err[1], PARSE_ERROR, req.Id)), vs)
      ELSE IF req.Jsonrpc # RPC_VERSION
        THEN batchLoop_pathFirst(requests, i + 1,
               Append(rs, makeErrorResponse(<<"Invalid RPC version. jsonrpc must be 2.0">>,
                                            INVALID_REQUEST, req.Id)), vs)
      ELSE IF p.serviceName \notin DOMAIN services
        THEN batchLoop_pathFirst(requests, i + 1,
               Append(rs, makeErrorResponse(<<"Service ", p.serviceName, " is not registered">>,
                                            METHOD_NOT_FOUND, req.Id)), vs)
      ELSE batchLoop_pathFirst(requests, i + 1, rs,
             Append(vs, [req |-> req, service |-> p.serviceName,
                         methodName |-> p.methodName]))

\* handleBatchRequest, lines 304-327: the loop over the requests, giving the
\* responses of the rejected ones and the entries of validServices.
RECURSIVE batchLoop(_, _, _, _)
batchLoop(requests, i, rs, vs) ==
  IF i > Len(requests) THEN [responses |-> rs, validServices |-> vs]
  ELSE LET req == requests[i] IN
    IF req.Jsonrpc # RPC_VERSION
      THEN batchLoop(requests, i + 1,
             Append(rs, makeErrorResponse(<<"Invalid RPC version. jsonrpc must be 2.0">>,
                                          INVALID_REQUEST, req.Id)), vs)
    ELSE LET p == sanitizeMethodPath(req.Method) IN
      IF p.err # Nil
        THEN batchLoop(requests, i + 1,
               Append(rs, makeErrorResponse(p.err[1], PARSE_ERROR, req.Id)), vs)
      ELSE IF p.serviceName \notin DOMAIN services
        THEN batchLoop(requests, i + 1,
               Append(rs, makeErrorResponse(<<"Service ", p.serviceName, " is not registered">>,
                                            METHOD_NOT_FOUND, req.Id)), vs)
      ELSE batchLoop(requests, i + 1, rs,
             Append(vs, [req |-> req, service |-> p.serviceName,
                         methodName |-> p.methodName]))

\* ----------------------------------------------------------- registration

\* A method of a service value, as reflection describes it: its name,
\* whether it is exported, the types of its parameters after the receiver,
\* and the number of its outputs.
Method(name, exported, params, numOut) ==
  [name |-> name, exported |-> exported, params |-> params, numOut |-> numOut]

\* The service values handed to Register: the tests' arith and testType, a
\* value without methods, a value whose exported methods all have the wrong
\* outputs, and a value whose methods have three outputs but no context
\* parameter (and one unexported method of the right shape).
ServiceValues ==
  { [typeName |-> "arith",
     methods |-> { Method("Add", TRUE, <<"ctx", "float64", "float64">>, 3),
                   Method("ErrorMethod", TRUE, <<"ctx">>, 3) }],
    [typeName |-> "testType",
     methods |-> { Method("FuncCheck1", TRUE, <<>>, 0),
                   Method("FuncCheck2", TRUE, <<"ctx">>, 0),
                   Method("FuncCheck3", TRUE, <<"ctx">>, 2),
                   Method("FuncCheck4", TRUE, <<"ctx">>, 3),
                   Method("FuncCheck5", TRUE, <<"ctx">>, 3) }],
    [typeName |-> "empty", methods |-> {}],
    [typeName |-> "shapeless",
     methods |-> { Method("FuncCheck1", TRUE, <<>>, 0),
                   Method("FuncCheck3", TRUE, <<"ctx">>, 2) }],
    [typeName |-> "loose",
     methods |-> { Method("Ping", TRUE, <<>>, 3),
                   Method("Echo", TRUE, <<"string">>, 3),
                   Method("hidden", FALSE, <<"ctx">>, 3) }] }

\* The names RegisterWithName is called with.
ServiceNames == {"Arith", "loose"}

\* reflect.Value.NumMethod / Method(m): the exported methods only.
reflectMethods(srv) == {m \in srv.methods : m.exported}

\* reflect's Type of a method value has the receiver as its first input.
NumIn(m) == Len(m.params) + 1

\* isValidMethod ignoring the number of outputs.
isValidMethod_anyOut(m) ==
  IF ~m.exported THEN FALSE
  ELSE IF NumIn(m) = 0 THEN FALSE
  ELSE TRUE

isValidMethod(m) ==
  IF ~m.exported THEN FALSE
  ELSE IF NumIn(m) = 0 THEN FALSE
  ELSE IF m.numOut # 3 THEN FALSE
  ELSE TRUE

\* The key of a registration: the type's name, or the name given.
serviceName(srv, name) == IF name = Nil THEN srv.typeName ELSE name[1]

\* register keeping the first registration made under a key.
register_firstWins(reg, srv, name) ==
  IF Cardinality(reflectMethods(srv)) = 0
    THEN [err |-> Ptr(<<"No method registered for this service">>), services |-> reg]
  ELSE LET key == serviceName(srv, name)
           methods == {m.name : m \in {x \in reflectMethods(srv) : isValidMethod(x)}}
       IN [err |-> Nil,
           services |-> [k \in DOMAIN reg \cup {key} |->
                           IF k \in DOMAIN reg THEN reg[k] ELSE methods]]

\* register: what it returns and the services map it leaves.
register(reg, srv, name) ==
  IF Cardinality(reflectMethods(srv)) = 0
    THEN [err |-> Ptr(<<"No method registered for this service">>), services |-> reg]
  ELSE LET key == serviceName(srv, name)
           methods == {m.name : m \in {x \in reflectMethods(srv) : isValidMethod(x)}}
           after == [k \in DOMAIN reg \cup {key} |->
                       IF k = key THEN methods ELSE reg[k]]
       IN IF Cardinality(DOMAIN after) = 0
            THEN [err |-> Ptr(<<"No method registered for this service">>),
                  services |-> after]
            ELSE [err |-> Nil, services |-> after]

\* ------------------------------------------------------------------ state

VARIABLES
  payload,        \* what readRequest decoded of the body
  cpc,            \* where the serving goroutine (the coordinator) stands
  responses,      \* handleBatchRequest's responses slice
  validServices,  \* handleBatchRequest's validServices slice
  collected,      \* iterations of the fan-in loop that have completed
  tasks,          \* the goroutines running service.call, one per `go`
  mu,             \* handleBatchRequest's mutex
  respClosed,     \* respChan has been closed
  errClosed,      \* errChan has been closed
  ctxDone,        \* the request context's Done channel is closed
  w,              \* what has been written to the http.ResponseWriter
  fault,          \* the unrecovered panic or fatal error that ended the process
  picks,          \* history: the case each select took, and ctxDone then
  registry,       \* jsonRpcImpl.services: service name -> registered method names
  regLog          \* history: the register calls made, with what each returned

vars == <<payload, cpc, responses, validServices, collected, tasks, mu,
          respClosed, errClosed, ctxDone, w, fault, picks, registry, regLog>>

NoFault == "none"

SendOnClosed == "panic: send on closed channel"

UnlockOfUnlocked == "fatal error: sync: unlock of unlocked mutex"

Init ==
  /\ payload \in Payloads
  /\ cpc = "handle"
  /\ responses = <<>>
  /\ validServices = <<>>
  /\ collected = 0
  /\ tasks = <<>>
  /\ mu = "unlocked"
  /\ respClosed = FALSE
  /\ errClosed = FALSE
  /\ ctxDone = FALSE
  /\ w = <<>>
  /\ fault = NoFault
  /\ picks = <<>>
  /\ registry = services
  /\ regLog = <<>>

\* The process is alive: a fatal error or an unrecovered panic ends every
\* goroutine.
Alive == fault = NoFault

\* One entry of the history: the case taken, the task received from (0 for
\* the cancellation case), the value received, and ctxDone at that moment.
pick(c, t, got) == [case |-> c, task |-> t, got |-> got, ctx |-> ctxDone]

\* ---------------------------------------------------------------- actions

\* The context is cancelled (deadline, abort, the client going away).
Cancel ==
  /\ Alive /\ ~ctxDone /\ cpc # "done"
  /\ ctxDone' = TRUE
  /\ UNCHANGED <<registry, regLog, payload, cpc, responses, validServices, collected, tasks, mu,
                 respClosed, errClosed, w, fault, picks>>

\* handle: a body that decodes as neither form is answered through
\* writeErrorResponse with a nil id; otherwise dispatch.
handle ==
  /\ Alive /\ cpc = "handle"
  /\ IF payload.kind = "garbage"
       THEN /\ w' = Append(w, writeErrorResponse(<<"Unable to decode request">>,
                                                  PARSE_ERROR, Nil))
            /\ cpc' = "done"
       ELSE /\ w' = w
            /\ cpc' = payload.kind
  /\ UNCHANGED <<registry, regLog, payload, responses, validServices, collected, tasks, mu,
                 respClosed, errClosed, ctxDone, fault, picks>>

\* handleSingleRequest up to its select: reject, or start the invocation.
handleSingleRequest ==
  /\ Alive /\ cpc = "single"
  /\ LET req == payload.reqs[1]
         bad == singleCheck(req)
         p   == sanitizeMethodPath(req.Method)
     IN IF bad # Nil
          THEN /\ w' = Append(w, writeErrorResponse(bad[1].err, bad[1].code, req.Id))
               /\ cpc' = "done"
               /\ tasks' = tasks
          ELSE /\ tasks' = <<newTask(p.serviceName, p.methodName, req.Id)>>
               /\ cpc' = "single_select"
               /\ w' = w
  /\ UNCHANGED <<registry, regLog, payload, responses, validServices, collected, mu,
                 respClosed, errClosed, ctxDone, fault, picks>>

\* select, case err := <-errChan
handleSingleRequest_errChan ==
  /\ Alive /\ cpc = "single_select"
  /\ tasks[1].pc \in errSends /\ ~errClosed
  /\ LET e == tasks[1].out IN
       w' = Append(w, writeErrorResponse(e.err, e.code, e.reqId))
  /\ tasks' = [tasks EXCEPT ![1].pc = "done"]
  /\ picks' = Append(picks, pick("err", 1, tasks[1].out))
  /\ cpc' = "close_resp"
  /\ UNCHANGED <<registry, regLog, payload, responses, validServices, collected, mu,
                 respClosed, errClosed, ctxDone, fault>>

\* select, case d := <-respChan
handleSingleRequest_respChan ==
  /\ Alive /\ cpc = "single_select"
  /\ tasks[1].pc \in respSends /\ ~respClosed
  /\ LET d == tasks[1].out IN
       w' = Append(w, writeSuccessResponse(d.data, d.reqId))
  /\ tasks' = [tasks EXCEPT ![1].pc = "done"]
  /\ picks' = Append(picks, pick("resp", 1, tasks[1].out))
  /\ cpc' = "close_resp"
  /\ UNCHANGED <<registry, regLog, payload, responses, validServices, collected, mu,
                 respClosed, errClosed, ctxDone, fault>>

\* The cancellation case answering with a nil id, as the batch path's
\* terminal entry does.
handleSingleRequest_ctxDone_nilId ==
  /\ Alive /\ cpc = "single_select"
  /\ ctxDone
  /\ w' = Append(w, writeErrorResponse(<<"Request canceled">>, INTERNAL_ERROR, Nil))
  /\ picks' = Append(picks, pick("done", 0, NoOut))
  /\ cpc' = "close_resp"
  /\ UNCHANGED <<registry, regLog, payload, responses, validServices, collected, tasks, mu,
                 respClosed, errClosed, ctxDone, fault>>

\* The cancellation case leaving without writing anything.
handleSingleRequest_ctxDone_silent ==
  /\ Alive /\ cpc = "single_select"
  /\ ctxDone
  /\ w' = w
  /\ picks' = Append(picks, pick("done", 0, NoOut))
  /\ cpc' = "close_resp"
  /\ UNCHANGED <<registry, regLog, payload, responses, validServices, collected, tasks, mu,
                 respClosed, errClosed, ctxDone, fault>>

\* select, case <-ctx.Done()
handleSingleRequest_ctxDone ==
  /\ Alive /\ cpc = "single_select"
  /\ ctxDone
  /\ w' = Append(w, writeErrorResponse(<<"Request canceled">>, INTERNAL_ERROR,
                                       payload.reqs[1].Id))
  /\ picks' = Append(picks, pick("done", 0, NoOut))
  /\ cpc' = "close_resp"
  /\ UNCHANGED <<registry, regLog, payload, responses, validServices, collected, tasks, mu,
                 respClosed, errClosed, ctxDone, fault>>

\* close(respChan), in either path
closeRespChan ==
  /\ Alive /\ cpc = "close_resp"
  /\ respClosed' = TRUE
  /\ cpc' = "close_err"
  /\ UNCHANGED <<registry, regLog, payload, responses, validServices, collected, tasks, mu,
                 errClosed, ctxDone, w, fault, picks>>

\* close(errChan), in either path
closeErrChan ==
  /\ Alive /\ cpc = "close_err"
  /\ errClosed' = TRUE
  /\ cpc' = IF payload.kind = "batch" THEN "batch_write" ELSE "done"
  /\ UNCHANGED <<registry, regLog, payload, responses, validServices, collected, tasks, mu,
                 respClosed, ctxDone, w, fault, picks>>

\* handleBatchRequest, lines 300-327: validate and resolve every request.
handleBatchRequest ==
  /\ Alive /\ cpc = "batch"
  /\ LET r == batchLoop(payload.reqs, 1, <<>>, <<>>) IN
       /\ responses' = r.responses
       /\ validServices' = r.validServices
  /\ cpc' = "batch_spawn"
  /\ UNCHANGED <<registry, regLog, payload, collected, tasks, mu, respClosed, errClosed,
                 ctxDone, w, fault, picks>>

\* After an iteration of the fan-in loop: the next one, or past the loop.
afterIteration(n) ==
  IF n >= Len(validServices) THEN "close_resp" ELSE "batch_select"

\* lines 329-335: the mutex, the channels, and one goroutine per entry.
handleBatchRequest_spawn ==
  /\ Alive /\ cpc = "batch_spawn"
  /\ tasks' = [i \in 1..Len(validServices) |->
                 newTask(validServices[i].service, validServices[i].methodName,
                         validServices[i].req.Id)]
  /\ cpc' = afterIteration(0)
  /\ UNCHANGED <<registry, regLog, payload, responses, validServices, collected, mu,
                 respClosed, errClosed, ctxDone, w, fault, picks>>

\* One iteration that received an outcome: Lock, append, Unlock.
fanIn(resp) ==
  LET m1 == muLock(mu)
      m2 == muUnlock(m1)
  IN /\ m1 = "locked"
     /\ responses' = Append(responses, resp)
     /\ IF m2 = "fatal"
          THEN /\ fault' = UnlockOfUnlocked
               /\ UNCHANGED <<mu, collected, cpc>>
          ELSE /\ mu' = m2
               /\ collected' = collected + 1
               /\ cpc' = afterIteration(collected + 1)
               /\ fault' = fault

\* select, case e := <-errChan
handleBatchRequest_errChan(t) ==
  /\ Alive /\ cpc = "batch_select"
  /\ tasks[t].pc \in errSends /\ ~errClosed
  /\ LET e == tasks[t].out IN fanIn(makeErrorResponse(e.err, e.code, e.reqId))
  /\ tasks' = [tasks EXCEPT ![t].pc = "done"]
  /\ picks' = Append(picks, pick("err", t, tasks[t].out))
  /\ UNCHANGED <<registry, regLog, payload, validServices, respClosed, errClosed, ctxDone, w>>

\* select, case r := <-respChan
handleBatchRequest_respChan(t) ==
  /\ Alive /\ cpc = "batch_select"
  /\ tasks[t].pc \in respSends /\ ~respClosed
  /\ LET r == tasks[t].out IN fanIn(makeSuccessResponse(r.data, r.reqId))
  /\ tasks' = [tasks EXCEPT ![t].pc = "done"]
  /\ picks' = Append(picks, pick("resp", t, tasks[t].out))
  /\ UNCHANGED <<registry, regLog, payload, validServices, respClosed, errClosed, ctxDone, w>>

\* select, case <-ctx.Done(): Unlock, append the terminal entry, Unlock.
handleBatchRequest_ctxDone ==
  /\ Alive /\ cpc = "batch_select"
  /\ ctxDone
  /\ picks' = Append(picks, pick("done", 0, NoOut))
  /\ LET m1 == muUnlock(mu)
         rs == Append(responses,
                      makeErrorResponse(<<"Request was not able to complete">>,
                                        INTERNAL_ERROR, Nil))
         m2 == muUnlock(m1)
     IN IF m1 = "fatal"
          THEN /\ fault' = UnlockOfUnlocked
               /\ UNCHANGED <<responses, mu, collected, cpc>>
          ELSE IF m2 = "fatal"
            THEN /\ fault' = UnlockOfUnlocked
                 /\ responses' = rs
                 /\ mu' = m1
                 /\ UNCHANGED <<collected, cpc>>
            ELSE /\ responses' = rs
                 /\ mu' = m2
                 /\ collected' = collected + 1
                 /\ cpc' = afterIteration(collected + 1)
                 /\ fault' = fault
  /\ UNCHANGED <<registry, regLog, payload, validServices, tasks, respClosed, errClosed, ctxDone, w>>

\* writeBatchResponse(w, responses), after the channels are closed.
handleBatchRequest_write ==
  /\ Alive /\ cpc = "batch_write"
  /\ w' = Append(w, writeBatchResponse(responses))
  /\ cpc' = "done"
  /\ UNCHANGED <<registry, regLog, payload, responses, validServices, collected, tasks, mu,
                 respClosed, errClosed, ctxDone, fault, picks>>

\* service.call without its lookup: the handler is executed whatever the
\* method name.
call_noLookup(t) ==
  /\ Alive /\ t \in DOMAIN tasks /\ tasks[t].pc = "start"
  /\ LET tk == tasks[t] IN
       \E b \in HandlerBehaviours :
         LET r == callResult(b, tk.id) IN
           tasks' = [tasks EXCEPT ![t].pc = r.pc, ![t].out = r.out, ![t].ret = b]
  /\ UNCHANGED <<registry, regLog, payload, cpc, responses, validServices, collected, mu,
                 respClosed, errClosed, ctxDone, w, fault, picks>>

\* service.call from its start to its first send: the lookup, then the
\* handler's execution under the deferred recover.
call(t) ==
  /\ Alive /\ t \in DOMAIN tasks /\ tasks[t].pc = "start"
  /\ LET tk == tasks[t] IN
       IF tk.methodName \notin services[tk.svc]
         THEN tasks' = [tasks EXCEPT
                ![t].pc = "send136",
                ![t].out = callerError(<<"Method ", tk.methodName,
                                         " does not exist on service ", tk.svc>>,
                                       METHOD_NOT_FOUND, tk.id)]
         ELSE \E b \in HandlerBehaviours :
                LET r == callResult(b, tk.id) IN
                  tasks' = [tasks EXCEPT ![t].pc = r.pc, ![t].out = r.out, ![t].ret = b]
  /\ UNCHANGED <<registry, regLog, payload, cpc, responses, validServices, collected, mu,
                 respClosed, errClosed, ctxDone, w, fault, picks>>

\* A send of line 177 or 185 on a closed channel panics under the deferred
\* function, which recovers it and sends an INTERNAL_ERROR on errChan.
call_sendPanicRecovered(t) ==
  /\ Alive /\ t \in DOMAIN tasks
  /\ \/ tasks[t].pc = "send177" /\ errClosed
     \/ tasks[t].pc = "send185" /\ respClosed
  /\ LET r == recovered("send on closed channel", tasks[t].id) IN
       tasks' = [tasks EXCEPT ![t].pc = r.pc, ![t].out = r.out]
  /\ UNCHANGED <<registry, regLog, payload, cpc, responses, validServices, collected, mu,
                 respClosed, errClosed, ctxDone, w, fault, picks>>

\* A send of line 136 (no recover is deferred yet) or of line 154 (inside
\* the deferred function) on a closed channel is a panic nothing recovers.
call_sendPanicFatal(t) ==
  /\ Alive /\ t \in DOMAIN tasks
  /\ tasks[t].pc \in {"send136", "send154"} /\ errClosed
  /\ fault' = SendOnClosed
  /\ tasks' = [tasks EXCEPT ![t].pc = "panicked"]
  /\ UNCHANGED <<registry, regLog, payload, cpc, responses, validServices, collected, mu,
                 respClosed, errClosed, ctxDone, w, picks>>

Coordinator ==
  \/ handle
  \/ handleSingleRequest
  \/ handleSingleRequest_errChan
  \/ handleSingleRequest_respChan
  \/ handleSingleRequest_ctxDone
  \/ closeRespChan
  \/ closeErrChan
  \/ handleBatchRequest
  \/ handleBatchRequest_spawn
  \/ \E t \in DOMAIN tasks : handleBatchRequest_errChan(t)
  \/ \E t \in DOMAIN tasks : handleBatchRequest_respChan(t)
  \/ handleBatchRequest_ctxDone
  \/ handleBatchRequest_write

Invocations ==
  \/ \E t \in DOMAIN tasks : call(t)
  \/ \E t \in DOMAIN tasks : call_sendPanicRecovered(t)
  \/ \E t \in DOMAIN tasks : call_sendPanicFatal(t)

Next == Cancel \/ Coordinator \/ Invocations

Spec == Init /\ [][Next]_vars

\* The Go scheduler runs every runnable goroutine: the coordinator takes a
\* step it can take, and a task whose send has panicked goes on.  A handler
\* need not return, so call(t) is not fair.
LiveSpec ==
  /\ Init /\ [][Next]_vars
  /\ WF_vars(Coordinator)
  /\ WF_vars(\E t \in DOMAIN tasks : call_sendPanicRecovered(t))
  /\ WF_vars(\E t \in DOMAIN tasks : call_sendPanicFatal(t))

\* ------------------------------------------------------------ vocabulary

IsBatch == payload.kind = "batch"

IsSingle == payload.kind = "single"

\* The select of the coordinator has taken its cancellation case.
CancelTaken == \E i \in DOMAIN picks : picks[i].case = "done"

\* How many outcomes of task t the coordinator has received.
Delivered(t) == Cardinality({i \in DOMAIN picks : picks[i].task = t})

\* How many elements of a sequence of requests or responses carry this id.
CountId(seq, id) == Cardinality({i \in DOMAIN seq : seq[i].Id = id})

RequestIds == {r.Id : r \in Requests} \ {Nil}

\* A request that passes validation, service lookup and method lookup.
Passes(req) ==
  /\ req.Jsonrpc = "2.0"
  /\ Len(req.Method) = 2
  /\ req.Method[1] \in DOMAIN services
  /\ req.Method[2] \in services[req.Method[1]]

NoContent == [status |-> 204, kind |-> "none", body |-> <<>>]

\* The terminal entry of a cancelled batch.
IsTerminal(r) ==
  /\ r.Error # Nil
  /\ r.Error[1].Code = 32603
  /\ r.Error[1].Message = <<"Request was not able to complete">>

\* ------------------------------------------------------------------ claims

\* C1: in every reachable state of serving a single or a batch request, no
\* goroutine has ended in an unhandled fault: the process has not crashed.
C1_NoUnhandledFault == fault = NoFault

\* C2: every invocation delivers exactly one outcome to its coordinator: it
\* never delivers two, it never ends (in a panic) without having delivered,
\* a finished one has delivered one, and what it delivered is a success or an
\* error that carries the id of the request it was started for.
C2_ExactlyOneOutcome ==
  \A t \in DOMAIN tasks :
    /\ Delivered(t) <= 1
    /\ tasks[t].pc # "panicked"
    /\ tasks[t].pc = "done" => Delivered(t) = 1
    /\ \A i \in DOMAIN picks :
         picks[i].task = t =>
           /\ picks[i].got.kind \in {"ok", "err"}
           /\ picks[i].got.reqId = tasks[t].id
           /\ tasks[t].id = IF IsBatch THEN validServices[t].req.Id
                                       ELSE payload.reqs[1].Id

\* C3: a batch of N requests whose coordinator never took the cancellation
\* case emits one array with N minus (number of notifications) entries, and
\* every id occurs in it as often as among the requests, in whatever order.
C3_BatchOutput ==
  (IsBatch /\ cpc = "done" /\ ~CancelTaken) =>
    /\ Len(w) = 1
    /\ w[1].kind = "array"
    /\ Len(w[1].body) = Len(payload.reqs) - CountId(payload.reqs, Nil)
    /\ \A id \in RequestIds : CountId(w[1].body, id) = CountId(payload.reqs, id)

\* A batch of two answered in the reverse of its input order.
C3_Witness ==
  /\ IsBatch /\ cpc = "done" /\ ~CancelTaken
  /\ Len(payload.reqs) = 2
  /\ Len(w) = 1 /\ Len(w[1].body) = 2
  /\ w[1].body[1].Id = payload.reqs[2].Id
  /\ w[1].body[2].Id = payload.reqs[1].Id
  /\ payload.reqs[1].Id # payload.reqs[2].Id
  /\ Len(picks) = 2

\* C4: once the context is cancelled while the batch coordinator waits in
\* its select, the coordinator eventually finishes and emits the output.
C4_CancelledBatchFinishes ==
  []((IsBatch /\ cpc = "batch_select" /\ ctxDone) => <>(cpc = "done" /\ Len(w) = 1))

\* C5: once the batch coordinator has observed the cancellation, it has taken
\* the cancellation case once and as its last case (it collects nothing
\* further), the result collection holds exactly one terminal INTERNAL_ERROR
\* entry, and the emitted output contains that entry.
C5_TerminalEntry ==
  (IsBatch /\ CancelTaken) =>
    /\ Cardinality({i \in DOMAIN picks : picks[i].case = "done"}) = 1
    /\ picks[Len(picks)].case = "done"
    /\ Len(SelectSeq(responses, IsTerminal)) = 1
    /\ cpc = "done" => /\ Len(w) = 1
                       /\ Len(SelectSeq(w[1].body, IsTerminal)) = 1

\* C6: no reachable state has unlocked a mutex that was not locked: the
\* mutex is locked once before it is unlocked once on every path of the
\* fan-in, the cancellation path included.
C6_MutexBalanced == fault # UnlockOfUnlocked /\ mu \in {"locked", "unlocked"}

\* C7: nothing is emitted for a notification: no element of a batch output
\* has a nil id, a batch output has at most as many elements as the batch has
\* requests with an id, and a single notification gets the no-content answer
\* only; and the handler of a notification that passes validation and lookup
\* is executed: its task is started, and has run the handler by the time the
\* coordinator answers without having taken the cancellation case.
C7_Notifications ==
  /\ \A i \in DOMAIN w :
       w[i].kind = "array" =>
         /\ \A j \in DOMAIN w[i].body : w[i].body[j].Id # Nil
         /\ Len(w[i].body) <= Len(payload.reqs) - CountId(payload.reqs, Nil)
  /\ (IsSingle /\ payload.reqs[1].Id = Nil) =>
       \A i \in DOMAIN w : w[i] = NoContent
  /\ (IsSingle /\ payload.reqs[1].Id = Nil /\ Passes(payload.reqs[1]) /\ Len(w) > 0) =>
       /\ Len(tasks) = 1
       /\ ~CancelTaken => tasks[1].ret.kind # "none"
  /\ (IsBatch /\ Len(w) > 0) =>
       Cardinality({t \in DOMAIN tasks :
                      tasks[t].id = Nil /\ tasks[t].ret.kind # "none"})
         = Cardinality({i \in DOMAIN payload.reqs :
                          payload.reqs[i].Id = Nil /\ Passes(payload.reqs[i])})

\* A batch of a notification and a call: the notification's handler has
\* returned an error, and the output holds the call's entry alone.
C7_Witness ==
  /\ IsBatch /\ cpc = "done" /\ Len(payload.reqs) = 2
  /\ payload.reqs[1].Id = Nil /\ Passes(payload.reqs[1])
  /\ payload.reqs[2].Id # Nil
  /\ tasks[1].id = Nil /\ tasks[1].ret.kind = "return" /\ tasks[1].ret.err # Nil
  /\ Len(w) = 1 /\ Len(w[1].body) = 1

\* The answer to a cancelled single request: the INTERNAL_ERROR response
\* "Request canceled" with the request's id, or no content for a notification.
CanceledAnswer(id) ==
  IF id = Nil THEN NoContent
  ELSE [status |-> 200, kind |-> "object",
        body |-> <<[Jsonrpc |-> "2.0", Id |-> id, Result |-> Nil,
                    Error |-> <<[Code |-> 32603, Message |-> <<"Request canceled">>,
                                 Data |-> "null"]>>]>>]

\* C8 as stated: when the cancellation has fired before the dispatcher
\* receives the outcome of a single request with an id, what is written is the
\* INTERNAL_ERROR "Request canceled" response with that id.
C8_Original ==
  (IsSingle /\ Len(picks) = 1 /\ picks[1].ctx /\ payload.reqs[1].Id # Nil) =>
    w = <<CanceledAnswer(payload.reqs[1].Id)>>

\* C8, amended: when the select of the single path takes its cancellation
\* case, the signal has fired and the dispatcher writes the INTERNAL_ERROR
\* "Request canceled" response with the request's id (no content for a
\* notification) without waiting for the handler; it takes that case whenever
\* the signal has fired and no outcome is offered; with an outcome offered as
\* well, either case may be taken.
C8_CancellationCase ==
  [][(IsSingle /\ cpc = "single_select" /\ cpc' # "single_select") =>
       LET p == picks'[Len(picks')] IN
         /\ p.case = "done" =>
              /\ ctxDone
              /\ w' = Append(w, CanceledAnswer(payload.reqs[1].Id))
              /\ tasks' = tasks
         /\ (ctxDone /\ tasks[1].pc \notin (errSends \cup respSends)) =>
              p.case = "done"]_vars

\* A single request with an id, answered by the cancellation case while its
\* handler has not returned.
C8_Witness ==
  /\ IsSingle /\ Len(picks) = 1 /\ picks[1].case = "done"
  /\ payload.reqs[1].Id # Nil
  /\ tasks[1].pc = "start"
  /\ w = <<CanceledAnswer(payload.reqs[1].Id)>>

\* C9: a handler that panics has its panic caught in the invocation and
\* turned into one INTERNAL_ERROR error outcome with the request's id, which
\* the task sends or has delivered; the task never ends in a panic.
C9_PanicIsolated ==
  \A t \in DOMAIN tasks :
    tasks[t].ret.kind = "panic" =>
      /\ tasks[t].pc \in {"send154", "done"}
      /\ tasks[t].out.kind = "err"
      /\ tasks[t].out.code = 32603
      /\ tasks[t].out.reqId = tasks[t].id
      /\ Delivered(t) <= 1

\* What the claim says the outcome of a normal return is.
ExpectedOutcome(b, o) ==
  IF b.err # Nil
    THEN /\ o.kind = "err"
         /\ o.code = IF b.code.t = "ptr" THEN b.code.v ELSE 32603
    ELSE /\ o.kind = "ok"
         /\ o.data = b.result

\* C10: the outcome of a handler that returned normally, as the task sends
\* it at line 177 or 185 and as the coordinator receives it, is an error with
\* the supplied code (INTERNAL_ERROR when none was supplied) if the
\* application error is non-nil, and a success with the result otherwise.
C10_NormalReturn ==
  /\ \A t \in DOMAIN tasks :
       (tasks[t].ret.kind = "return" /\ tasks[t].pc \in {"send177", "send185"}) =>
         ExpectedOutcome(tasks[t].ret, tasks[t].out)
  /\ \A i \in DOMAIN picks :
       (picks[i].task # 0 /\ tasks[picks[i].task].ret.kind = "return") =>
         ExpectedOutcome(tasks[picks[i].task].ret, picks[i].got)

\* A batch in which one handler's error with its own code, and another's
\* error without a code, have both been received.
C10_Witness ==
  /\ \E i \in DOMAIN picks :
       /\ picks[i].task # 0
       /\ tasks[picks[i].task].ret.err # Nil
       /\ tasks[picks[i].task].ret.code.t = "ptr"
       /\ picks[i].got.code = 32602
  /\ \E i \in DOMAIN picks :
       /\ picks[i].task # 0
       /\ tasks[picks[i].task].ret.err # Nil
       /\ tasks[picks[i].task].ret.code.t = "nilptr"
       /\ picks[i].got.code = 32603


\* C11: a payload that decodes neither as a request nor as an array of
\* requests is answered by exactly one error response, written as a body,
\* that carries PARSE_ERROR and a null id.
C11_GarbageAnswered ==
  (payload.kind = "garbage" /\ cpc = "done") =>
    /\ Len(w) = 1
    /\ w[1].kind = "object"
    /\ Len(w[1].body) = 1
    /\ w[1].body[1].Id = Nil
    /\ w[1].body[1].Error # Nil
    /\ w[1].body[1].Error[1].Code = 32700


\* ------------------------------------------------- building the registry

\* NewJsonRpc: an empty services map; no request is served meanwhile.
RegInit ==
  /\ payload = [kind |-> "garbage", reqs |-> <<>>]
  /\ cpc = "handle"
  /\ responses = <<>>
  /\ validServices = <<>>
  /\ collected = 0
  /\ tasks = <<>>
  /\ mu = "unlocked"
  /\ respClosed = FALSE
  /\ errClosed = FALSE
  /\ ctxDone = FALSE
  /\ w = <<>>
  /\ fault = NoFault
  /\ picks = <<>>
  /\ registry = [k \in {} |-> {}]
  /\ regLog = <<>>

\* One call of register, logged with what it returned.
registerCall(srv, name) ==
  /\ Len(regLog) < MaxRegs
  /\ LET r == register(registry, srv, name) IN
       /\ registry' = r.services
       /\ regLog' = Append(regLog, [srv |-> srv, name |-> name, err |-> r.err])
  /\ UNCHANGED <<payload, cpc, responses, validServices, collected, tasks, mu,
                 respClosed, errClosed, ctxDone, w, fault, picks>>

Register(srv) == registerCall(srv, Nil)

RegisterWithName(srv, name) == registerCall(srv, Ptr(name))

RegNext ==
  \/ \E srv \in ServiceValues : Register(srv)
  \/ \E srv \in ServiceValues : \E name \in ServiceNames : RegisterWithName(srv, name)

RegSpec == RegInit /\ [][RegNext]_vars


\* The calling convention as documented: exported, a context as the first
\* parameter, and exactly three outputs.
SatisfiesConvention(m) ==
  /\ m.exported
  /\ Len(m.params) >= 1
  /\ m.params[1] = "ctx"
  /\ m.numOut = 3

ConventionNames(srv) == {m.name : m \in {x \in srv.methods : SatisfiesConvention(x)}}

\* The key a logged register call was made under.
LoggedKey(c) == IF c.name = Nil THEN c.srv.typeName ELSE c.name[1]

\* The last successful register call made under key k, 0 if there is none.
LastUnder(k) ==
  LET S == {i \in DOMAIN regLog : regLog[i].err = Nil /\ LoggedKey(regLog[i]) = k}
  IN IF S = {} THEN 0 ELSE CHOOSE i \in S : \A j \in S : j <= i

\* C13: a register call for a value none of whose methods satisfies the
\* calling convention returns an error and leaves the registry as it was.
C13_NoValidMethodFails ==
  [][regLog' # regLog =>
       LET c == regLog'[Len(regLog')] IN
         ConventionNames(c.srv) = {} => (c.err # Nil /\ registry' = registry)]_vars

\* C14: the methods a successful registration puts in the service's method
\* map are exactly the candidate methods that are exported, take a context
\* as their first parameter and return exactly three values.
C14_AcceptedIffConvention ==
  [][regLog' # regLog =>
       LET c == regLog'[Len(regLog')] IN
         c.err = Nil => registry'[LoggedKey(c)] = ConventionNames(c.srv)]_vars

\* C19: the keys of the registry are exactly the keys successful register
\* calls were made under (the type's name when no name was given, the given
\* name otherwise), and each key holds the methods of the service of the
\* last successful call made under it, whatever was registered under other
\* keys before or after.
C19_LastRegistrationWins ==
  /\ DOMAIN registry = {LoggedKey(regLog[i]) : i \in {j \in DOMAIN regLog : regLog[j].err = Nil}}
  /\ \A k \in DOMAIN registry :
       LET c == regLog[LastUnder(k)] IN
         registry[k] = {m.name : m \in {x \in reflectMethods(c.srv) : isValidMethod(x)}}

\* loose registered under its type name, then arith registered under the
\* name "loose": the key holds arith's methods.
C19_Witness ==
  /\ Len(regLog) = 2
  /\ regLog[1].name = Nil /\ regLog[1].srv.typeName = "loose" /\ regLog[1].err = Nil
  /\ regLog[2].name = Ptr("loose") /\ regLog[2].srv.typeName = "arith"
  /\ DOMAIN registry = {"loose"}
  /\ registry["loose"] = {"Add", "ErrorMethod"}


\* ------------------------------------------- serving any shape of request

\* Method strings as their '.'-separated segments: no separator, one, two,
\* an empty service part, an empty method part, a method the service lacks,
\* a service that is not registered, and the empty string.
WideMethods ==
  { <<"ArithAdd">>, <<"Arith", "Add">>, <<"Arith", "Add", "x">>, <<"", "Add">>,
    <<"Arith", "">>, <<"Arith", "Sub">>, <<"Other", "Add">>, <<"">> }

\* Every combination of id, version and method string.
WideRequests ==
  { [Id |-> id, Method |-> m, Jsonrpc |-> v] :
      id \in {Nil, Ptr("1")}, m \in WideMethods, v \in {"2.0", "1.1"} }

\* The plain call a request shares a batch with.
Companion == [Id |-> Ptr("2"), Method |-> <<"Arith", "Add">>, Jsonrpc |-> "2.0"]

\* Each request alone, as a one-element batch, and on either side of the
\* companion in a batch of two; and a body that does not decode.
WidePayloads ==
  { [kind |-> "single", reqs |-> <<r>>] : r \in WideRequests }
  \cup { [kind |-> "batch", reqs |-> <<r>>] : r \in WideRequests }
  \cup { [kind |-> "batch", reqs |-> <<r, Companion>>] : r \in WideRequests }
  \cup { [kind |-> "batch", reqs |-> <<Companion, r>>] : r \in WideRequests }
  \cup { [kind |-> "garbage", reqs |-> <<>>] }

WideInit ==
  /\ payload \in WidePayloads
  /\ cpc = "handle"
  /\ responses = <<>>
  /\ validServices = <<>>
  /\ collected = 0
  /\ tasks = <<>>
  /\ mu = "unlocked"
  /\ respClosed = FALSE
  /\ errClosed = FALSE
  /\ ctxDone = FALSE
  /\ w = <<>>
  /\ fault = NoFault
  /\ picks = <<>>
  /\ registry = services
  /\ regLog = <<>>

WideSpec == WideInit /\ [][Next]_vars


\* A method string with exactly one separator and two non-empty parts.
WellFormedMethod(m) == Len(m) = 2 /\ m[1] # "" /\ m[2] # ""

\* The entries of what was written that answer the request with this id.
AnswersTo(id) ==
  IF Len(w) = 0 THEN {}
  ELSE {w[1].body[i] : i \in {j \in DOMAIN w[1].body : w[1].body[j].Id = id}}

\* The run has finished without a fault and without the coordinator having
\* taken its cancellation case.
FinishedNormally == cpc = "done" /\ fault = NoFault /\ ~CancelTaken

\* C12: when a single or batch request has been served without cancellation,
\* every request of it that has the right version and an id, and whose
\* method string is not exactly a non-empty service part, one separator and
\* a non-empty method part, is answered with PARSE_ERROR.
C12_MalformedMethodParseError ==
  (FinishedNormally /\ payload.kind # "garbage") =>
    \A i \in DOMAIN payload.reqs :
      LET r == payload.reqs[i] IN
        (r.Jsonrpc = "2.0" /\ r.Id # Nil /\ ~WellFormedMethod(r.Method)) =>
          /\ AnswersTo(r.Id) # {}
          /\ \A a \in AnswersTo(r.Id) :
               a.Error # Nil /\ a.Error[1].Code = 32700


\* An INVALID_REQUEST response about the version, for the request with this id.
IsVersionError(a, id) ==
  /\ a.Id = id
  /\ a.Result = Nil
  /\ a.Error # Nil
  /\ a.Error[1].Code = 32600
  /\ a.Error[1].Message = <<"Invalid RPC version. jsonrpc must be 2.0">>

\* C15: a request whose version is not "2.0" never has an invocation started
\* for it and is answered by an INVALID_REQUEST response with the message
\* "Invalid RPC version. jsonrpc must be 2.0" and its id: in the single path
\* that response is what is written (nothing for a notification), in a batch
\* it is in the collection from the validation loop on and in the output.
C15_WrongVersion ==
  /\ (IsSingle /\ payload.reqs[1].Jsonrpc # "2.0") =>
       /\ tasks = <<>>
       /\ cpc \in {"handle", "single", "done"}
       /\ cpc = "done" =>
            /\ Len(w) = 1
            /\ IF payload.reqs[1].Id = Nil
                 THEN w[1] = NoContent
                 ELSE /\ Len(w[1].body) = 1
                      /\ IsVersionError(w[1].body[1], payload.reqs[1].Id)
  /\ (IsBatch /\ cpc \notin {"handle", "batch"}) =>
       \A i \in DOMAIN payload.reqs :
         LET r == payload.reqs[i] IN
           r.Jsonrpc # "2.0" =>
             /\ \E j \in DOMAIN responses : IsVersionError(responses[j], r.Id)
             /\ \A t \in DOMAIN tasks : tasks[t].id # r.Id
             /\ Len(tasks) < Len(payload.reqs)
             /\ (cpc = "done" /\ r.Id # Nil) =>
                  /\ Cardinality(AnswersTo(r.Id)) = 1
                  /\ \A a \in AnswersTo(r.Id) : IsVersionError(a, r.Id)

\* A batch of a request with a wrong version and a method string without a
\* separator, and a plain call: the first is answered with INVALID_REQUEST,
\* the second with its result.
C15_Witness ==
  /\ IsBatch /\ cpc = "done" /\ Len(payload.reqs) = 2
  /\ payload.reqs[1] = [Id |-> Ptr("1"), Method |-> <<"ArithAdd">>, Jsonrpc |-> "1.1"]
  /\ Len(w) = 1 /\ Len(w[1].body) = 2
  /\ IsVersionError(w[1].body[1], Ptr("1"))
  /\ w[1].body[2].Id = Ptr("2") /\ w[1].body[2].Result # Nil


\* A well-versioned, well-formed request for a service that is not registered.
UnknownService(r) ==
  /\ r.Jsonrpc = "2.0" /\ WellFormedMethod(r.Method)
  /\ r.Method[1] \notin DOMAIN services

\* A well-versioned, well-formed request for a method its service lacks.
UnknownMethod(r) ==
  /\ r.Jsonrpc = "2.0" /\ WellFormedMethod(r.Method)
  /\ r.Method[1] \in DOMAIN services
  /\ r.Method[2] \notin services[r.Method[1]]

NotRegisteredMsg(r) == <<"Service ", r.Method[1], " is not registered">>

NoSuchMethodMsg(r) == <<"Method ", r.Method[2], " does not exist on service ", r.Method[1]>>

\* A METHOD_NOT_FOUND response with this message, for the request with this id.
IsNotFound(a, id, msg) ==
  /\ a.Id = id
  /\ a.Result = Nil
  /\ a.Error # Nil
  /\ a.Error[1].Code = 32601
  /\ a.Error[1].Message = msg

\* The response to request r, where the path keeps or writes it, is the
\* METHOD_NOT_FOUND response with this message.
NotFoundAnswered(r, msg) ==
  IF IsSingle
    THEN cpc \in {"close_resp", "close_err", "done"} =>
           /\ Len(w) = 1
           /\ IF r.Id = Nil THEN w[1] = NoContent
              ELSE Len(w[1].body) = 1 /\ IsNotFound(w[1].body[1], r.Id, msg)
    ELSE /\ \E j \in DOMAIN responses : IsNotFound(responses[j], r.Id, msg)
         /\ (cpc = "done" /\ r.Id # Nil) =>
              /\ Cardinality(AnswersTo(r.Id)) = 1
              /\ \A a \in AnswersTo(r.Id) : IsNotFound(a, r.Id, msg)

\* C16: a well-versioned, well-formed request for a service that is not
\* registered never has an invocation started and is answered with
\* METHOD_NOT_FOUND, "Service X is not registered" and its id; for a method
\* the service lacks, the invocation executes no handler, its only outcome is
\* METHOD_NOT_FOUND with "Method Y does not exist on service X" and the id,
\* and that is the response once the coordinator has received the outcome,
\* which it has in every run that finishes without its cancellation case.
C16_NotFound ==
  \A i \in DOMAIN payload.reqs :
    LET r == payload.reqs[i] IN
      /\ (UnknownService(r) /\ cpc \notin {"handle", "single", "batch"}) =>
           /\ \A t \in DOMAIN tasks : tasks[t].id # r.Id
           /\ IsSingle => cpc = "done"
           /\ NotFoundAnswered(r, NotRegisteredMsg(r))
      /\ UnknownMethod(r) =>
           /\ \A t \in DOMAIN tasks :
                tasks[t].id = r.Id =>
                  /\ tasks[t].ret.kind = "none"
                  /\ tasks[t].pc # "start" =>
                       tasks[t].out = callerError(NoSuchMethodMsg(r), 32601, r.Id)
                  /\ Delivered(t) >= 1 => NotFoundAnswered(r, NoSuchMethodMsg(r))
           /\ FinishedNormally =>
                \E t \in DOMAIN tasks : tasks[t].id = r.Id /\ Delivered(t) = 1

\* A batch whose first request names a method the service lacks and whose
\* second is a plain call: the first is answered with METHOD_NOT_FOUND, the
\* second with its result.
C16_Witness ==
  /\ FinishedNormally /\ Len(w) = 1
  /\ IsBatch /\ Len(payload.reqs) = 2 /\ UnknownMethod(payload.reqs[1])
  /\ Len(w[1].body) = 2
  /\ \E a \in AnswersTo(Ptr("1")) :
       a.Error[1].Message = <<"Method ", "Sub", " does not exist on service ", "Arith">>
  /\ \E a \in AnswersTo(Ptr("2")) : a.Result # Nil


\* Exactly one of result and error is present.
OneOfResultError(r) == (r.Result = Nil) # (r.Error = Nil)

\* A batch member that passes the validation loop: right version, a method
\* string with a separator, a registered service.
PassesLoop(q) ==
  /\ q.Jsonrpc = "2.0"
  /\ Len(q.Method) >= 2
  /\ q.Method[1] \in DOMAIN services

\* The batch members the validation loop rejects, in their order.
Rejected == SelectSeq(payload.reqs, LAMBDA q : ~PassesLoop(q))

\* C17: every response kept in a batch's collection or written has exactly
\* one of result and error.  A single request's response has the request's
\* id.  In a batch the collection is first the responses to the rejected
\* requests, each with its request's id, then one response per case the
\* coordinator took: the terminal entry with a null id for the cancellation
\* case, and otherwise a response with the id of the request the invocation
\* was started for, an error exactly when the outcome was an error.
C17_ResponseShape ==
  /\ \A j \in DOMAIN responses : OneOfResultError(responses[j])
  /\ \A k \in DOMAIN w : \A j \in DOMAIN w[k].body : OneOfResultError(w[k].body[j])
  /\ IsSingle =>
       \A k \in DOMAIN w : \A j \in DOMAIN w[k].body :
         w[k].body[j].Id = payload.reqs[1].Id
  /\ (IsBatch /\ cpc \notin {"handle", "batch"}) =>
       /\ Len(responses) >= Len(Rejected)
       /\ \A j \in DOMAIN Rejected :
            responses[j].Id = Rejected[j].Id /\ responses[j].Error # Nil
       /\ \A i \in DOMAIN picks :
            LET j == Len(Rejected) + i IN
              j <= Len(responses) =>
                IF picks[i].case = "done"
                  THEN responses[j].Id = Nil /\ IsTerminal(responses[j])
                  ELSE /\ responses[j].Id = validServices[picks[i].task].req.Id
                       /\ responses[j].Id = tasks[picks[i].task].id
                       /\ (responses[j].Error # Nil) = (picks[i].got.kind = "err")
       /\ Len(responses) <= Len(Rejected) + Len(picks)

\* A batch of two invocations, one delivering an error and one a success:
\* both responses are in the collection and in the output.
C17_Witness ==
  /\ IsBatch /\ cpc = "done" /\ Len(payload.reqs) = 2 /\ Len(w) = 1
  /\ Len(responses) = 2 /\ Len(picks) = 2
  /\ \E i \in DOMAIN picks : picks[i].got.kind = "err"
  /\ \E i \in DOMAIN picks : picks[i].got.kind = "ok"
  /\ \E j \in DOMAIN w[1].body : w[1].body[j].Result # Nil
  /\ \E j \in DOMAIN w[1].body : w[1].body[j].Error # Nil


\* The batch members that pass the validation loop, in their order.
Accepted == SelectSeq(payload.reqs, PassesLoop)

\* The first responses of the collection are the error responses to the
\* rejected requests, in their order.
RejectionsCollected ==
  /\ Len(responses) >= Len(Rejected)
  /\ \A j \in DOMAIN Rejected :
       /\ responses[j].Id = Rejected[j].Id
       /\ responses[j].Error # Nil
       /\ responses[j].Error[1].Code \in {32600, 32700, 32601}

\* C18: in a batch no invocation exists before the validation loop has run;
\* after it the collection holds exactly the error responses to the requests
\* that failed the version, method-path or service check, still before any
\* invocation is started; and the invocations then started are exactly one
\* per request that passed, for its service, method and id.
C18_RejectedBeforeScheduled ==
  IsBatch =>
    /\ cpc \in {"handle", "batch", "batch_spawn"} => tasks = <<>>
    /\ cpc = "batch_spawn" =>
         /\ RejectionsCollected
         /\ Len(responses) = Len(Rejected)
         /\ Len(validServices) = Len(payload.reqs) - Len(Rejected)
    /\ cpc \notin {"handle", "batch", "batch_spawn"} =>
         /\ RejectionsCollected
         /\ Len(tasks) = Len(payload.reqs) - Len(Rejected)
         /\ Len(tasks) = Len(Accepted)
         /\ \A t \in DOMAIN tasks :
              /\ tasks[t].id = Accepted[t].Id
              /\ tasks[t].svc = Accepted[t].Method[1]
              /\ tasks[t].methodName = Accepted[t].Method[2]

\* A batch of a request with a wrong version and a plain call, in its
\* select: one response collected, one invocation started.
C18_Witness ==
  /\ IsBatch /\ cpc = "batch_select" /\ Len(payload.reqs) = 2
  /\ payload.reqs[1].Jsonrpc # "2.0"
  /\ Len(Rejected) = 1 /\ Len(responses) = 1 /\ Len(tasks) = 1
  /\ responses[1].Error[1].Code = 32600
  /\ tasks[1].id = payload.reqs[2].Id


\* The entry the batch path makes for request req submitted as a batch of
\* one, its invocation (if one is started) delivering the outcome got.
BatchEntryFor(req, got) ==
  LET r == batchLoop(<<req>>, 1, <<>>, <<>>) IN
    IF Len(r.responses) = 1 THEN r.responses[1]
    ELSE IF got.kind = "err" THEN makeErrorResponse(got.err, got.code, got.reqId)
    ELSE makeSuccessResponse(got.data, got.reqId)

\* What the single path writes for request req, its invocation (if one is
\* started) delivering the outcome got.
SingleWriteFor(req, got) ==
  LET bad == singleCheck(req) IN
    IF bad # Nil THEN writeErrorResponse(bad[1].err, bad[1].code, req.Id)
    ELSE IF got.kind = "err" THEN writeErrorResponse(got.err, got.code, got.reqId)
    ELSE writeSuccessResponse(got.data, got.reqId)

\* The outcome the coordinator received, if it received one.
Received == IF Len(picks) = 0 THEN NoOut ELSE picks[1].got

\* C20: for a request with an id served without cancellation, what the
\* single path wrote is the entry the batch path makes for the same request
\* and the same outcome of its invocation, and the one entry a one-element
\* batch wrote is what the single path writes for it; an invocation is
\* started in one path exactly when it is in the other, for the same service
\* and method.
C20_SameInBothPaths ==
  (FinishedNormally /\ Len(payload.reqs) = 1 /\ payload.reqs[1].Id # Nil) =>
    LET req == payload.reqs[1]
        r   == batchLoop(<<req>>, 1, <<>>, <<>>)
    IN /\ Len(w) = 1
       /\ IsSingle =>
            /\ w[1].body = <<BatchEntryFor(req, Received)>>
            /\ Len(tasks) = Len(r.validServices)
            /\ \A t \in DOMAIN tasks :
                 /\ tasks[t].svc = r.validServices[t].service
                 /\ tasks[t].methodName = r.validServices[t].methodName
                 /\ tasks[t].id = r.validServices[t].req.Id
       /\ IsBatch =>
            /\ w[1].body = SingleWriteFor(req, Received).body
            /\ (Len(tasks) = 0) = (singleCheck(req) # Nil)
            /\ \A t \in DOMAIN tasks :
                 /\ tasks[t].svc = sanitizeMethodPath(req.Method).serviceName
                 /\ tasks[t].methodName = sanitizeMethodPath(req.Method).methodName
                 /\ tasks[t].id = req.Id

\* A request with a wrong version whose method string has no separator,
\* as a one-element batch: answered with INVALID_REQUEST, as the single path
\* answers it.
C20_Witness ==
  /\ FinishedNormally /\ IsBatch /\ Len(payload.reqs) = 1
  /\ payload.reqs[1] = [Id |-> Ptr("1"), Method |-> <<"ArithAdd">>, Jsonrpc |-> "1.1"]
  /\ Len(w) = 1 /\ Len(w[1].body) = 1
  /\ w[1].body[1].Error[1].Code = 32600
  /\ singleCheck(payload.reqs[1])[1].code = 32600


\* C21: no invocation task is at a send, or has panicked in one, on a
\* channel the coordinator has already closed.
C21_CloseAfterDelivery ==
  \A t \in DOMAIN tasks :
    /\ tasks[t].pc \in errSends => ~errClosed
    /\ tasks[t].pc \in respSends => ~respClosed
    /\ tasks[t].pc # "panicked"

\* The coordinator of a single request has left its select.
SingleAnswered == cpc \in {"close_resp", "close_err", "done"}

\* C22: the single path has written nothing before it rejects the request
\* or leaves its select, and exactly one response from then on, whatever
\* happens later: the rejection, or the response to the one case the select
\* took (the invocation's outcome, or the cancellation error with the
\* request's id), or the no-body signal when the request is a notification.
C22_SingleWritesOnce ==
  IsSingle =>
    /\ Len(w) <= 1
    /\ Len(picks) <= 1
    /\ ~SingleAnswered => Len(w) = 0
    /\ SingleAnswered =>
         /\ Len(w) = 1
         /\ (tasks # <<>>) = (Len(picks) = 1)
         /\ w[1] = IF CancelTaken
                     THEN writeErrorResponse(<<"Request canceled">>, 32603,
                                             payload.reqs[1].Id)
                     ELSE SingleWriteFor(payload.reqs[1], Received)

\* The outcome was taken while the context was already cancelled: both
\* cases of the select were ready, and one response was written.
C22_Witness ==
  /\ IsSingle /\ cpc = "done" /\ Len(w) = 1
  /\ Len(picks) = 1
  /\ picks[1].case = "resp" /\ picks[1].ctx
  /\ w[1].body[1].Result # Nil

\* C23: whenever the coordinator receives the outcome of a handler that
\* returned normally with a non-nil application error, the outcome is an
\* error carrying that application error's message.
C23_ApplicationMessage ==
  \A i \in DOMAIN picks :
    LET t == picks[i].task IN
      (t # 0 /\ tasks[t].ret.kind = "return" /\ tasks[t].ret.err # Nil) =>
        /\ picks[i].got.kind = "err"
        /\ picks[i].got.err = tasks[t].ret.err[1]

====
